---- MODULE Spec2Model ----
(***************************************************************************)
(* RAG evaluation harness: the per-item pipeline (question generation,     *)
(* RAG query with retries, answer evaluation, cost accounting) and the     *)
(* batch loops that drive it.                                              *)
(*                                                                         *)
(* Three drivers are modelled, selected by `mode`:                         *)
(*   "folder"  SmartRAGTester.process_folder_input over                    *)
(*             RAGTester.test_single_image      (src/smart_tester.py,      *)
(*                                               src/core/rag_tester.py)   *)
(*   "excel"   SmartRAGTester.process_excel_input (src/smart_tester.py)    *)
(*   "system"  RAGTestSystem.batch_test_images over                        *)
(*             RAGTestSystem.test_single_image                             *)
(*                                     (src/test_RAG/rag_test_system.py)   *)
(* ("single" and "interactive" are one call of the pipeline by             *)
(* RAGTester.test_single_image and by run_single_test.)                    *)
(*                                                                         *)
(* Spec is the batch.  The operations run outside a batch have their own   *)
(* specifications over the same variables:                                 *)
(*   SpecQuery      RAGAPIClient.query_rag for any retry_count             *)
(*   SpecQuestion   the question generators, called repeatedly             *)
(*   SpecTokens     the two CostCalculator.estimate_tokens                 *)
(*   SpecSummary    _display_summary and _calculate_statistics on the      *)
(*                  results a batch can return                             *)
(*   SpecDiscovery  the two get_image_categories on a directory tree       *)
(*                                                                         *)
(* Conventions.  Scores are integers in thousandths (0.8 is 800), weights  *)
(* in tenths (0.4 is 4), money in units of 1e-7 USD.  A Python dict of     *)
(* numbers is a set of <<key, value>> pairs.  A text is known by a label   *)
(* and by its statistics [len, cjk] (length, number of characters in       *)
(* U+4E00..U+9FFF), which is all the cost code reads of it.  Python None   *)
(* is the string "None".                                                   *)
(***************************************************************************)
EXTENDS Integers, Sequences, FiniteSets, TLC

VARIABLES
    mode,           \* which driver runs the batch
    backend,        \* the LLM backend: "none", "mock" or "live"
    retry_count,    \* RAGAPIClient.retry_count
    N,              \* number of selected items (images or rows) of the batch
    blank_row,      \* Excel mode: index of a row whose question cell is empty (0: none)
    pc,             \* "idle" (loop head), "query", "evaluate", "done"
    idx,            \* index of the item being processed (0 before the first)
    results,        \* the list of result records accumulated by the batch
    delays,         \* number of inter-item sleeps taken by the batch loop
    question,       \* the question held by the pipeline for the current item
    qcost,          \* question generation cost of the current item
    requests,       \* requests.post calls issued by the current query
    warnings,       \* logger.warning calls made by the current query
    sleeps,         \* time.sleep(2) calls made by the current query
    last_status,    \* what the latest request returned (-1: none yet)
    qstate,         \* "idle", "running", "returned", "raised" for the query
    rag_response,   \* the parsed body returned by the query
    evaluation,     \* the latest evaluation dict produced for this item
    eval_path,      \* which path produced it
    eval_reply,     \* what the evaluator backend replied for this item
    supplied_question, \* the question the caller supplied (NoneQuestion: none)
    now,            \* the clock, in hours (time.time() // 3600)
    session_id,     \* the session id handed to the RAG client for this item
    payload_session, \* the sessionId carried by the requests of this item
    sent_sessions,           \* per queried item: its category and the sessionId sent
    qsource,        \* where the item's question came from
    summary,        \* what _display_summary computed from `results`
    stats,          \* what ReportGenerator._calculate_statistics returned
    discoverer,     \* which get_image_categories is run
    directory,      \* the image directory it is run on
    runs,           \* the category dicts its runs returned
    stages,         \* the stages the current item's pipeline has entered
    qerror,         \* what a query_rag call raised (None: nothing)
    asked,          \* the questions generated so far, with their items
    text,           \* the text handed to estimate_tokens
    tokens,         \* what estimate_tokens returned (-1: not called)
    estimator       \* which CostCalculator.estimate_tokens is called

vars == <<mode, backend, retry_count, N, blank_row, pc, idx, results, delays, question,
          qcost, requests, warnings, sleeps, last_status, qstate,
          rag_response, evaluation, eval_path, eval_reply, supplied_question, now,
          session_id,
          payload_session, sent_sessions, qsource, summary, stats, discoverer,
          directory, runs, stages, qerror, asked, text, tokens, estimator>>

config == <<mode, backend, retry_count, N, blank_row, supplied_question>>

\* the state of the operations run outside a batch
offline_vars == <<summary, stats, discoverer, directory, runs, qerror, asked, text,
                  tokens, estimator>>

\* what an item's start fixes for the rest of the item
item_vars == <<now, session_id, payload_session, sent_sessions, qsource>>

(* ------------------------------ bounds --------------------------------- *)
MaxItems == 2
MaxRetry == 2
\* the clock runs over the hours 0..MaxClock
MaxClock == 1

(* --------------------------- dict helpers ------------------------------ *)
None == "None"

Has(d, k) == \E p \in d : p[1] = k

\* dict.get(k, default)
Get(d, k, default) == IF Has(d, k) THEN (CHOOSE p \in d : p[1] = k)[2] ELSE default

Max(a, b) == IF a >= b THEN a ELSE b
Min(a, b) == IF a <= b THEN a ELSE b

(* ------------------------------- texts --------------------------------- *)
T(l, c) == [len |-> l, cjk |-> c]

Cat(a, b) == [len |-> a.len + b.len, cjk |-> a.cjk + b.cjk]

EmptyText == T(0, 0)

(* ------------------------------ corpus --------------------------------- *)
\* Images of the corpus.  `category` is Path(image_path).parent.name,
\* `tokens` the substrings of the file name that the code tests for,
\* `prefix` the text before "_page_" with trailing dots stripped.
Corpus ==
    << [path |-> "catA/LVDS_page_1.png", category |-> "catA",
        name |-> "LVDS_page_1.png", tokens |-> {"LVDS", "_page_"},
        prefix |-> "LVDS", name_text |-> T(15, 0), path_text |-> T(20, 0)],
       [path |-> "catA/MATERIAL_INTRO._page_2.png", category |-> "catA",
        name |-> "MATERIAL_INTRO._page_2.png", tokens |-> {"MATERIAL", "_page_"},
        prefix |-> "MATERIAL_INTRO", name_text |-> T(16, 4), path_text |-> T(21, 4)],
       [path |-> "catB/x3.png", category |-> "catB",
        name |-> "x3.png", tokens |-> {},
        prefix |-> "", name_text |-> T(6, 0), path_text |-> T(11, 0)],
       [path |-> "catB/Cable_4.png", category |-> "catB",
        name |-> "Cable_4.png", tokens |-> {"Cable"},
        prefix |-> "", name_text |-> T(11, 0), path_text |-> T(16, 0)] >>

Image(i) == Corpus[((i - 1) % Len(Corpus)) + 1]

\* Questions are [tpl, arg]: a literal of the code and what is spliced in.
Q(tpl, arg) == [tpl |-> tpl, arg |-> arg]

NoQuestion == Q("", "")

\* the None of an optional question parameter
NoneQuestion == Q("None", "")

\* Python truthiness of an optional question
Truthy(q) == q \notin {NoneQuestion, NoQuestion}

\* Rows of the Excel sheet: the question column, already stripped.
RowQuestion(i) == Q("ROW", Image(i).name)


(* ----------------------------- text table ------------------------------ *)
\* <<label, len, cjk>> of the string literals of the code.  The labels are
\* ASCII names of the (mostly Chinese) literals.
TextTable ==
    { <<"", 0, 0>>,
      \* a question of the caller's
      <<"CUSTOM", 24, 0>>,
      \* ClaudeClient.generate_question_from_image
      <<"Q_LVDS", 30, 23>>, <<"Q_CABLE", 27, 19>>, <<"Q_WIRE", 32, 17>>,
      <<"Q_FFC", 28, 22>>, <<"Q_MATERIAL", 21, 19>>, <<"Q_CATEGORY", 14, 13>>,
      \* ClaudeClient._extract_category_from_filename
      <<"LVDS_HARNESS", 8, 4>>, <<"CABLE_SPEC", 9, 4>>, <<"WIRE_HARNESS", 14, 2>>,
      <<"WH_HARNESS", 6, 4>>, <<"FFC_SPEC", 7, 4>>, <<"EXT_DESIGN", 5, 5>>,
      <<"EC_PROCESS", 6, 4>>, <<"EXT_APPLY", 5, 5>>, <<"AUTO_WIRE", 6, 6>>,
      <<"AT_CABLE", 10, 2>>, <<"MATERIAL_PROP", 4, 4>>, <<"CONNECTOR_TECH", 5, 5>>,
      <<"TEST_PROC", 4, 4>>, <<"CONTRACT", 4, 4>>, <<"CUSTOMER", 4, 4>>,
      <<"PRODUCT", 4, 4>>, <<"DRAWING_GUIDE", 4, 4>>, <<"CHECKLIST", 4, 4>>,
      <<"QSA_AUDIT", 5, 2>>, <<"PRODUCTION_LINE", 5, 5>>, <<"TECH_SPEC", 4, 4>>,
      \* RAGTester.test_single_image
      <<"Q_DEFAULT", 17, 15>>, <<"FAILED", 4, 4>>,
      \* RAGTestSystem._generate_simple_question, _extract_category_from_path
      <<"SQ_MATERIAL_INTRO", 25, 23>>, <<"SQ_MATERIAL_KNOW", 25, 23>>,
      <<"SQ_CONNECTOR", 15, 14>>, <<"SQ_HARNESS", 14, 13>>, <<"SQ_TEST", 16, 15>>,
      <<"SQ_CATEGORY", 14, 13>>, <<"MATERIAL_INTRO", 4, 4>>, <<"LVDS", 4, 0>>,
      <<"UNKNOWN_CATEGORY", 4, 4>>,
      \* a question parsed from the Bedrock reply, a question of the sheet
      <<"Q_BEDROCK", 24, 20>>, <<"ROW", 20, 16>> }

LabelText(s) == LET p == CHOOSE p \in TextTable : p[1] = s IN T(p[2], p[3])

ArgText(arg) ==
    IF \E i \in 1..Len(Corpus) : Corpus[i].name = arg
    THEN (CHOOSE img \in {Corpus[i] : i \in 1..Len(Corpus)} : img.name = arg).name_text
    ELSE LabelText(arg)

QuestionText(q) == Cat(LabelText(q.tpl), ArgText(q.arg))

(* ---------------------------- CostModel -------------------------------- *)
\* RAGTestConfig rates (src/config/test_config.py), in 1e-7 USD per token
CLAUDE_INPUT_COST_PER_TOKEN == 120
CLAUDE_OUTPUT_COST_PER_TOKEN == 600
OPENAI_INPUT_COST_PER_TOKEN == 25
OPENAI_OUTPUT_COST_PER_TOKEN == 100

\* CostCalculator rates of src/test_RAG/rag_test_system.py
SYS_CLAUDE_INPUT_COST_PER_TOKEN == 30
SYS_CLAUDE_OUTPUT_COST_PER_TOKEN == 150
SYS_OPENAI_INPUT_COST_PER_TOKEN == 25
SYS_OPENAI_OUTPUT_COST_PER_TOKEN == 100

\* core CostCalculator.estimate_tokens
estimate_tokens(t) ==
    IF t.len = 0 THEN 0
    ELSE LET chinese_chars == t.cjk
             english_chars == t.len - chinese_chars
             estimated_tokens == chinese_chars + (english_chars \div 4)
         IN  Max(estimated_tokens, t.len \div 3)

calculate_claude_cost(input_text, output_text) ==
    estimate_tokens(input_text) * CLAUDE_INPUT_COST_PER_TOKEN
    + estimate_tokens(output_text) * CLAUDE_OUTPUT_COST_PER_TOKEN

calculate_openai_cost(input_text, output_text) ==
    estimate_tokens(input_text) * OPENAI_INPUT_COST_PER_TOKEN
    + estimate_tokens(output_text) * OPENAI_OUTPUT_COST_PER_TOKEN

\* rag_test_system CostCalculator.estimate_tokens
sys_estimate_tokens(t) == t.len \div 4

sys_calculate_claude_cost(input_text, output_text) ==
    sys_estimate_tokens(input_text) * SYS_CLAUDE_INPUT_COST_PER_TOKEN
    + sys_estimate_tokens(output_text) * SYS_CLAUDE_OUTPUT_COST_PER_TOKEN

sys_calculate_openai_cost(input_text, output_text) ==
    sys_estimate_tokens(input_text) * SYS_OPENAI_INPUT_COST_PER_TOKEN
    + sys_estimate_tokens(output_text) * SYS_OPENAI_OUTPUT_COST_PER_TOKEN

\* CostInfo(): the dataclass defaults
CostInfo0 ==
    [claude_question_generation_cost |-> 0, claude_evaluation_cost |-> 0,
     openai_rag_cost |-> 0, total_cost |-> 0]

\* CostInfo.calculate_total
calculate_total(c) ==
    [c EXCEPT !.total_cost = c.claude_question_generation_cost
                             + c.claude_evaluation_cost + c.openai_rag_cost]

(* ------------------------- QuestionGenerator --------------------------- *)
\* first rule of an ordered list <<tokens, label>> one of whose tokens
\* occurs in the file name
FirstMatch(rules, toks, default) ==
    LET hits == {i \in 1..Len(rules) : rules[i][1] \cap toks # {}}
    IN  IF hits = {} THEN default
        ELSE rules[CHOOSE i \in hits : \A j \in hits : i <= j][2]

\* ClaudeClient._extract_category_from_filename
extract_category_from_filename(img) ==
    FirstMatch(<< <<{"1.0", "LVDS"}, "LVDS_HARNESS">>, <<{"1.1", "Cable"}, "CABLE_SPEC">>,
                  <<{"1.2", "Wire"}, "WIRE_HARNESS">>, <<{"1.3", "WH"}, "WH_HARNESS">>,
                  <<{"1.4", "FFC"}, "FFC_SPEC">>, <<{"2.0"}, "EXT_DESIGN">>,
                  <<{"2.1", "EC"}, "EC_PROCESS">>, <<{"2.2"}, "EXT_APPLY">>,
                  <<{"3.0"}, "AUTO_WIRE">>, <<{"3.1", "AT-Cable"}, "AT_CABLE">>,
                  <<{"MATERIAL"}, "MATERIAL_PROP">>, <<{"CONNECTOR"}, "CONNECTOR_TECH">>,
                  <<{"TEST"}, "TEST_PROC">>, <<{"CONTRACT"}, "CONTRACT">>,
                  <<{"CUSTOMER"}, "CUSTOMER">>, <<{"PRODUCT"}, "PRODUCT">>,
                  <<{"DRAWING"}, "DRAWING_GUIDE">>, <<{"CHECKLIST"}, "CHECKLIST">>,
                  <<{"QSA"}, "QSA_AUDIT">>, <<{"PRODUCTION_LINE"}, "PRODUCTION_LINE">> >>,
               img.tokens, "TECH_SPEC")

\* ClaudeClient.generate_question_from_image: a lookup on the file name,
\* no backend call
generate_question_from_image(img) ==
    LET fixed == FirstMatch(<< <<{"LVDS"}, "Q_LVDS">>, <<{"Cable"}, "Q_CABLE">>,
                               <<{"Wire"}, "Q_WIRE">>, <<{"FFC"}, "Q_FFC">>,
                               <<{"MATERIAL"}, "Q_MATERIAL">> >>, img.tokens, "")
    IN  IF fixed # "" THEN Q(fixed, "")
        ELSE Q("Q_CATEGORY", extract_category_from_filename(img))

\* RAGTestSystem._extract_category_from_path
extract_category_from_path(img) ==
    IF "_page_" \in img.tokens THEN img.prefix ELSE "UNKNOWN_CATEGORY"

\* a generator that would pick its template by the number of questions
\* generated before (not the code; C21_FallbackIsDeterministic must tell
\* the two apart)
generate_simple_question_rotating(img) ==
    [success |-> TRUE,
     question |-> IF Len(asked) % 2 = 0
                  THEN Q("SQ_CATEGORY", extract_category_from_path(img))
                  ELSE Q("SQ_TEST", ""),
     has_texts |-> FALSE, input_text |-> EmptyText, output_text |-> EmptyText,
     error |-> None]

\* RAGTestSystem._generate_simple_question
generate_simple_question(img) ==
    LET category == extract_category_from_path(img)
        category_questions ==
            { <<"MATERIAL_INTRO", Q("SQ_MATERIAL_INTRO", "")>>,
              <<"MATERIAL_KNOW", Q("SQ_MATERIAL_KNOW", "")>>,
              <<"CONNECTOR", Q("SQ_CONNECTOR", "")>>,
              <<"HARNESS", Q("SQ_HARNESS", "")>>,
              <<"TEST", Q("SQ_TEST", "")>> }
    IN  [success |-> TRUE, question |-> Get(category_questions, category,
                                              Q("SQ_CATEGORY", category)),
         has_texts |-> FALSE, input_text |-> EmptyText, output_text |-> EmptyText,
         error |-> None]


(* ------------------------------ answers -------------------------------- *)
\* What the code reads of an answer text: its statistics, and whether it
\* holds the markers the heuristics and the image-reference checks look for.
\*   period   the CJK full stop occurs            (core heuristic, clarity)
\*   img      the word for "image" or "http" occurs (core)
\*   keyword  one of RAGTestSystem.image_keywords occurs
\*   terms    how many of _evaluate_answer_simple's technical terms occur
\*   structs  how many of its structure indicators occur
\*   is_str   FALSE for JSON null (Python None)
AnswerTable ==
    { [label |-> "ANS_SHORT", text |-> T(40, 0), is_str |-> TRUE, period |-> FALSE,
       img |-> FALSE, keyword |-> FALSE, terms |-> 0, structs |-> 0],
      [label |-> "ANS_LONG", text |-> T(250, 200), is_str |-> TRUE, period |-> TRUE,
       img |-> TRUE, keyword |-> TRUE, terms |-> 3, structs |-> 2],
      \* the placeholders of the two pipelines, and the Excel default ''
      [label |-> "PLACEHOLDER", text |-> T(6, 6), is_str |-> TRUE, period |-> FALSE,
       img |-> FALSE, keyword |-> FALSE, terms |-> 0, structs |-> 0],
      [label |-> "SYS_PLACEHOLDER", text |-> T(5, 5), is_str |-> TRUE, period |-> FALSE,
       img |-> FALSE, keyword |-> FALSE, terms |-> 0, structs |-> 0],
      [label |-> "", text |-> T(0, 0), is_str |-> TRUE, period |-> FALSE,
       img |-> FALSE, keyword |-> FALSE, terms |-> 0, structs |-> 0],
      [label |-> "NULL", text |-> T(0, 0), is_str |-> FALSE, period |-> FALSE,
       img |-> FALSE, keyword |-> FALSE, terms |-> 0, structs |-> 0] }

AnswerInfo(a) == CHOOSE r \in AnswerTable : r.label = a

\* the text an f-string makes of the answer (None prints as "None")
FormatText(a) == IF AnswerInfo(a).is_str THEN AnswerInfo(a).text ELSE T(4, 0)

\* str(dict): about 22 characters per entry
StrDictText(d) == T(2 + 22 * Cardinality(d), 0)

(* --------------------------- RAG endpoint ------------------------------ *)
\* Bodies of a 200 response: json is FALSE when response.json() raises,
\* otherwise `fields` is the parsed object.
Bodies ==
    { [json |-> FALSE, fields |-> {}],
      [json |-> TRUE, fields |-> {}],
      [json |-> TRUE, fields |-> {<<"response", "NULL">>}],
      [json |-> TRUE, fields |-> {<<"response", "ANS_SHORT">>, <<"reply", "ANS_LONG">>}],
      [json |-> TRUE, fields |-> {<<"answer", "ANS_LONG">>}] }

\* What one requests.post can do: status 0 is requests.exceptions.Timeout,
\* 500 a non-200 status, 200 a response with one of the bodies.
Responses ==
    {[status |-> 0, body |-> [json |-> FALSE, fields |-> {}]],
     [status |-> 500, body |-> [json |-> FALSE, fields |-> {}]]}
    \cup {[status |-> 200, body |-> b] : b \in Bodies}

\* The local state of one RAGAPIClient.query_rag call
QueryInit ==
    [requests |-> 0, warnings |-> 0, sleeps |-> 0, last_status |-> -1,
     qstate |-> "running", response |-> {}, error |-> None]

QueryIdle == [QueryInit EXCEPT !.qstate = "idle"]

\* an iteration whose final failure would fall out of the loop instead of
\* raising (not the code; C30_QueryExits must tell the two apart)
query_rag_attempt_fall_through(q, r, retries) ==
    LET attempt == q.requests
        final   == attempt = retries - 1
        sent    == [q EXCEPT !.requests = @ + 1, !.last_status = r.status]
        Failed(s, e) ==
            IF final THEN s
            ELSE [s EXCEPT !.sleeps = @ + 1]
    IN  IF r.status = 200
        THEN IF r.body.json
             THEN [sent EXCEPT !.qstate = "returned", !.response = r.body.fields]
             ELSE Failed(sent, "JSON_DECODE_ERROR")
        ELSE IF r.status = 0
        THEN Failed([sent EXCEPT !.warnings = @ + 1], "API_TIMEOUT")
        ELSE Failed([sent EXCEPT !.warnings = @ + 1], "API_ERROR_500")

\* One iteration of the retry loop of RAGAPIClient.query_rag, with `r` what
\* requests.post does.  attempt = q.requests is the loop index.
query_rag_attempt(q, r, retries) ==
    LET attempt == q.requests
        final   == attempt = retries - 1
        sent    == [q EXCEPT !.requests = @ + 1, !.last_status = r.status]
        \* the tail of a failed iteration: raise on the final attempt,
        \* otherwise sleep and go round
        Failed(s, e) ==
            IF final THEN [s EXCEPT !.qstate = "raised", !.error = e]
            ELSE [s EXCEPT !.sleeps = @ + 1]
    IN  IF r.status = 200
        THEN IF r.body.json
             THEN [sent EXCEPT !.qstate = "returned", !.response = r.body.fields]
             \* response.json() raises: caught by `except Exception`,
             \* logged with logger.error
             ELSE Failed(sent, "JSON_DECODE_ERROR")
        ELSE IF r.status = 0
        THEN Failed([sent EXCEPT !.warnings = @ + 1], "API_TIMEOUT")
        ELSE Failed([sent EXCEPT !.warnings = @ + 1], "API_ERROR_500")

\* RAGTestSystem.call_main_py_api: one request, no retry
call_main_py_api(r) ==
    IF r.status = 200 /\ r.body.json
    THEN [success |-> TRUE, error |-> None, raw_response |-> r.body.fields,
          answer |-> Get(r.body.fields, "reply",
                         Get(r.body.fields, "response", "SYS_PLACEHOLDER"))]
    ELSE IF r.status = 200
    THEN [success |-> FALSE, error |-> "JSON_DECODE_ERROR", raw_response |-> {},
          answer |-> "SYS_FAIL_EXCEPTION"]
    ELSE IF r.status = 0
    THEN [success |-> FALSE, error |-> "REQUEST_TIMEOUT", raw_response |-> {},
          answer |-> "SYS_FAIL_TIMEOUT"]
    ELSE [success |-> FALSE, error |-> "HTTP_500", raw_response |-> {},
          answer |-> "SYS_FAIL_STATUS_500"]

(* --------------------------- AnswerEvaluator --------------------------- *)
\* RAGTestConfig.EVALUATION_CRITERIA weights (src/config/test_config.py)
EVALUATION_CRITERIA ==
    { <<"technical_accuracy", 4>>, <<"completeness", 3>>,
      <<"clarity", 2>>, <<"image_reference", 1>> }

\* RAGTestConfig.EVALUATION_WEIGHTS (src/test_RAG/config/test_config.py)
EVALUATION_WEIGHTS ==
    { <<"technical_accuracy", 4>>, <<"completeness", 3>>,
      <<"image_reference", 2>>, <<"clarity", 1>> }

Criteria == {"technical_accuracy", "completeness", "clarity", "image_reference"}

\* Replies of the LLM backend to an evaluation prompt.  failed: the call
\* raised (transport, image encoding); json: a JSON object was found and
\* parsed; data: that object.
ReplyNone == [failed |-> FALSE, json |-> FALSE, data |-> {}]

LiveReplies ==
    { [failed |-> FALSE, json |-> TRUE,
       data |-> { <<"technical_accuracy", 800>>, <<"completeness", 700>>,
                  <<"clarity", 900>>, <<"image_reference", 600>> }],
      \* a value above 1, a negative value and a missing key
      [failed |-> FALSE, json |-> TRUE,
       data |-> { <<"technical_accuracy", 1500>>, <<"completeness", -200>>,
                  <<"clarity", 900>> }],
      \* every criterion scored zero
      [failed |-> FALSE, json |-> TRUE,
       data |-> { <<"technical_accuracy", 0>>, <<"completeness", 0>>,
                  <<"clarity", 0>>, <<"image_reference", 0>> }],
      ReplyNone,
      [failed |-> TRUE, json |-> FALSE, data |-> {}] }

Replies(b) == IF b = "live" THEN LiveReplies ELSE {ReplyNone}

\* ClaudeClient._mock_claude_response for an evaluation prompt: prose
\* without a JSON object
mock_claude_response == ReplyNone

\* ClaudeClient._call_claude
call_claude(b, reply) ==
    IF b = "mock" \/ reply.failed THEN mock_claude_response ELSE reply

\* ClaudeClient.evaluate_answer_quality, given the backend's reply
evaluate_answer_quality(claude_response, answer) ==
    IF claude_response.json
    THEN LET eval_data == claude_response.data
             weights   == EVALUATION_CRITERIA
             overall_score ==
                 ( Get(eval_data, "technical_accuracy", 500) * Get(weights, "technical_accuracy", 0)
                 + Get(eval_data, "completeness", 500) * Get(weights, "completeness", 0)
                 + Get(eval_data, "clarity", 500) * Get(weights, "clarity", 0)
                 + Get(eval_data, "image_reference", 500) * Get(weights, "image_reference", 0) ) \div 10
         IN  [path |-> "parsed",
              evaluation |->
                { <<"technical_accuracy", Get(eval_data, "technical_accuracy", 500)>>,
                  <<"completeness", Get(eval_data, "completeness", 500)>>,
                  <<"clarity", Get(eval_data, "clarity", 500)>>,
                  <<"image_reference", Get(eval_data, "image_reference", 500)>>,
                  <<"overall_score", overall_score>> }]
    ELSE IF AnswerInfo(answer).is_str
    THEN LET a == AnswerInfo(answer)
         IN  [path |-> "heuristic",
              evaluation |->
                { <<"technical_accuracy", IF a.text.len > 100 THEN 800 ELSE 500>>,
                  <<"completeness", IF a.text.len > 200 THEN 700 ELSE 400>>,
                  <<"clarity", IF a.period THEN 900 ELSE 600>>,
                  <<"image_reference", IF a.img THEN 600 ELSE 300>>,
                  <<"overall_score", 700>> }]
    \* len(answer) raises inside the parse handler: the outer handler
    ELSE [path |-> "exception",
          evaluation |->
            { <<"technical_accuracy", 500>>, <<"completeness", 500>>,
              <<"clarity", 500>>, <<"image_reference", 300>>,
              <<"overall_score", 450>> }]

\* RAGTester.test_single_image, claude_client is None
default_evaluation ==
    [path |-> "default",
     evaluation |-> { <<"technical_accuracy", 800>>, <<"completeness", 800>>,
                      <<"clarity", 800>>, <<"overall_score", 800>> }]

\* RAGTestSystem._evaluate_answer_simple
evaluate_answer_simple(answer) ==
    LET a == AnswerInfo(answer)
    IN  IF a.text.len = 0
        THEN { <<"technical_accuracy", 0>>, <<"completeness", 0>>,
               <<"image_reference", 0>>, <<"clarity", 0>> }
        ELSE { <<"technical_accuracy", Min(300 + a.terms * 100, 1000)>>,
               <<"completeness", IF a.text.len > 200 THEN 800
                                 ELSE IF a.text.len > 100 THEN 600
                                 ELSE IF a.text.len > 50 THEN 400 ELSE 200>>,
               <<"image_reference", IF a.keyword THEN 800 ELSE 0>>,
               <<"clarity", Min(400 + a.structs * 100, 1000)>> }

\* the key check and clamp of _evaluate_with_bedrock_detailed
clamp_scores(scores) ==
    { <<k, IF Has(scores, k) THEN Max(0, Min(1000, Get(scores, k, 0))) ELSE 500>> :
          k \in Criteria }
    \cup { p \in scores : p[1] \notin Criteria }

\* RAGTestSystem.evaluate_answer_with_claude_detailed
\* (with _evaluate_with_bedrock_detailed); prompt is the evaluation prompt
evaluate_answer_with_claude_detailed(b, reply, prompt, answer) ==
    IF b = "none" \/ reply.failed
    THEN [path |-> "simple", scores |-> evaluate_answer_simple(answer),
          input_text |-> EmptyText, output_text |-> EmptyText]
    ELSE IF reply.json
    THEN [path |-> "clamped", scores |-> clamp_scores(reply.data),
          input_text |-> prompt, output_text |-> T(88, 0)]
    ELSE [path |-> "simple", scores |-> evaluate_answer_simple(answer),
          input_text |-> prompt, output_text |-> T(30, 10)]


(* ------------------------- per-item pipelines -------------------------- *)
\* str(e) spliced into the failure text of RAGTester.test_single_image
FailedAnswer(e) ==
    CASE e = "API_TIMEOUT" -> "FAILED: API_TIMEOUT"
      [] e = "API_ERROR_500" -> "FAILED: API_ERROR_500"
      [] e = "JSON_DECODE_ERROR" -> "FAILED: JSON_DECODE_ERROR"
      [] OTHER -> "FAILED: TYPE_ERROR"

\* a handler that would keep the neutral 0.5 for technical_accuracy in the
\* failed result instead of zeroing it (not the code; C7_NoPartialResult
\* must tell the two apart)
test_single_image_except_neutral(img, custom_question, e) ==
    [image_path |-> img.path,
     category |-> img.category,
     generated_question |-> IF Truthy(custom_question) THEN custom_question
                            ELSE Q("FAILED", ""),
     rag_answer |-> FailedAnswer(e),
     evaluation_scores |-> {},
     overall_score |-> 0,
     has_image_reference |-> FALSE,
     technical_accuracy |-> 500,
     completeness |-> 0,
     clarity |-> 0,
     cost_info |-> CostInfo0,
     error_message |-> e]

\* RAGTester.test_single_image, the `except Exception as e` handler
test_single_image_except(img, custom_question, e) ==
    [image_path |-> img.path,
     category |-> img.category,
     generated_question |-> IF Truthy(custom_question) THEN custom_question
                            ELSE Q("FAILED", ""),
     rag_answer |-> FailedAnswer(e),
     evaluation_scores |-> {},
     overall_score |-> 0,
     has_image_reference |-> FALSE,
     technical_accuracy |-> 0,
     completeness |-> 0,
     clarity |-> 0,
     cost_info |-> CostInfo0,
     error_message |-> e]

\* RAGTester.test_single_image, step 1: the question and its cost
core_generate(img, b) ==
    IF b # "none"
    THEN LET q == generate_question_from_image(img)
         IN  [question |-> q,
              cost |-> calculate_claude_cost(Cat(T(11, 9), img.path_text),
                                             QuestionText(q))]
    ELSE [question |-> Q("Q_DEFAULT", img.name), cost |-> 0]

\* RAGTester.test_single_image from the return of query_rag to the end:
\* answer extraction, evaluation, costs, image reference, the result
test_single_image_tail(img, custom_question, q, question_generation_cost, response, b, reply) ==
    LET rag_answer ==
            Get(response, "response",
                Get(response, "reply", Get(response, "answer", "PLACEHOLDER")))
        ev == IF b # "none"
              THEN evaluate_answer_quality(call_claude(b, reply), rag_answer)
              ELSE default_evaluation
        evaluation_cost ==
            IF b # "none"
            THEN calculate_claude_cost(
                     Cat(Cat(T(6, 4), QuestionText(q)), Cat(T(5, 2), FormatText(rag_answer))),
                     StrDictText(ev.evaluation))
            ELSE 0
        rag_cost == calculate_openai_cost(QuestionText(q), AnswerInfo(rag_answer).text)
        cost_info ==
            calculate_total([claude_question_generation_cost |-> question_generation_cost,
                             claude_evaluation_cost |-> evaluation_cost,
                             openai_rag_cost |-> rag_cost,
                             total_cost |-> 0])
    IN  [ev |-> ev,
         result |->
           IF ~AnswerInfo(rag_answer).is_str
           \* `... in rag_answer` raises TypeError on None
           THEN test_single_image_except(img, custom_question, "TYPE_ERROR")
           ELSE [image_path |-> img.path,
                 category |-> img.category,
                 generated_question |-> q,
                 rag_answer |-> rag_answer,
                 evaluation_scores |-> ev.evaluation,
                 overall_score |-> Get(ev.evaluation, "overall_score", 0),
                 has_image_reference |-> AnswerInfo(rag_answer).img,
                 technical_accuracy |-> Get(ev.evaluation, "technical_accuracy", 0),
                 completeness |-> Get(ev.evaluation, "completeness", 0),
                 clarity |-> Get(ev.evaluation, "clarity", 0),
                 cost_info |-> cost_info,
                 error_message |-> None]]

\* SmartRAGTester.process_folder_input: RAGTestResult to dict
result_dict(r) ==
    [image_path |-> r.image_path, category |-> r.category,
     generated_question |-> r.generated_question, rag_answer |-> r.rag_answer,
     evaluation_scores |-> r.evaluation_scores, overall_score |-> r.overall_score,
     has_image_reference |-> r.has_image_reference,
     technical_accuracy |-> r.technical_accuracy, completeness |-> r.completeness,
     clarity |-> r.clarity, cost_info |-> r.cost_info,
     error_message |-> r.error_message, success |-> (r.error_message = None)]

\* SmartRAGTester.process_excel_input from the return of query_rag to the
\* result dict.  dropped: the row leaves no record (falsy response, or an
\* exception caught by the row's handler).
excel_row_tail(index, q, response, b, reply) ==
    LET answer == Get(response, "reply", "")
        ev == evaluate_answer_quality(call_claude(b, reply), answer)
        evaluation_cost ==
            calculate_claude_cost(
                Cat(Cat(T(6, 4), QuestionText(q)), Cat(T(5, 2), FormatText(answer))),
                StrDictText(ev.evaluation))
        rag_cost == calculate_openai_cost(QuestionText(q), AnswerInfo(answer).text)
        cost_info ==
            calculate_total([claude_question_generation_cost |-> 0,
                             claude_evaluation_cost |-> evaluation_cost,
                             openai_rag_cost |-> rag_cost,
                             total_cost |-> 0])
    IN  IF response = {}
        THEN [dropped |-> TRUE, ev |-> [path |-> "none", evaluation |-> {}], result |-> {}]
        \* self.rag_tester.claude_client is None: AttributeError
        ELSE IF b = "none"
        THEN [dropped |-> TRUE, ev |-> [path |-> "raised", evaluation |-> {}], result |-> {}]
        ELSE [dropped |-> FALSE, ev |-> ev,
              result |->
                [image_path |-> "",
                 category |-> <<"Excel_Row", index>>,
                 generated_question |-> q,
                 rag_answer |-> answer,
                 evaluation_scores |-> ev.evaluation,
                 overall_score |-> Get(ev.evaluation, "overall_score", 0),
                 has_image_reference |-> AnswerInfo(answer).img,
                 success |-> TRUE,
                 error_message |-> None,
                 cost_info |-> cost_info]]

\* RAGTestSystem.generate_question_from_image; g is what the backend does:
\* "ok" a reply with a numbered question, "unparsed" a reply parse_questions
\* finds nothing in, "error" a failed call or image read
GenOutcomes(b) == IF b = "live" THEN {"ok", "unparsed", "error"} ELSE {"simple"}

sys_generate_question_from_image(img, b, g) ==
    IF b = "none" THEN generate_simple_question(img)
    ELSE IF g = "ok"
    THEN [success |-> TRUE, question |-> Q("Q_BEDROCK", ""), has_texts |-> TRUE,
          input_text |-> T(136, 103), output_text |-> Cat(T(3, 0), LabelText("Q_BEDROCK")),
          error |-> None]
    ELSE [success |-> FALSE, question |-> NoQuestion, has_texts |-> FALSE,
          input_text |-> EmptyText, output_text |-> EmptyText,
          error |-> IF g = "unparsed" THEN "QUESTION_UNPARSED" ELSE "BEDROCK_ERROR"]

\* the RAGTestResult of the failure returns of RAGTestSystem.test_single_image
sys_failure_result(img, q, answer, cost_info, message) ==
    [image_path |-> img.path,
     category |-> extract_category_from_path(img),
     generated_question |-> q,
     rag_answer |-> answer,
     evaluation_scores |-> {},
     overall_score |-> 0,
     has_image_reference |-> FALSE,
     technical_accuracy |-> 0,
     completeness |-> 0,
     clarity |-> 0,
     cost_info |-> cost_info,
     error_message |-> message]

\* error_message of the three failure returns
QuestionFailedMessage(error) ==
    IF error = "QUESTION_UNPARSED" THEN "QUESTION_FAILED: QUESTION_UNPARSED"
    ELSE "QUESTION_FAILED: BEDROCK_ERROR"

RagFailedMessage(error) ==
    CASE error = "JSON_DECODE_ERROR" -> "RAG_FAILED: JSON_DECODE_ERROR"
      [] error = "REQUEST_TIMEOUT" -> "RAG_FAILED: REQUEST_TIMEOUT"
      [] OTHER -> "RAG_FAILED: HTTP_500"

\* a step 1 that would go on to the RAG request with the empty question
\* after a failed generation instead of returning (not the code;
\* C23_StagesShortCircuit must tell the two apart)
sys_test_single_image_generate_continue(img, b, g) ==
    LET question_result == sys_generate_question_from_image(img, b, g)
        cost_info == CostInfo0
    IN  [done |-> FALSE, question |-> question_result.question,
         cost_info |->
           IF question_result.has_texts
           THEN [cost_info EXCEPT !.claude_question_generation_cost =
                     sys_calculate_claude_cost(question_result.input_text,
                                               question_result.output_text)]
           ELSE cost_info,
         result |-> {}]

\* RAGTestSystem.test_single_image, step 1
sys_test_single_image_generate(img, b, g) ==
    LET question_result == sys_generate_question_from_image(img, b, g)
        cost_info == CostInfo0
    IN  IF ~question_result.success
        THEN [done |-> TRUE, question |-> NoQuestion, cost_info |-> cost_info,
              result |-> sys_failure_result(img, NoQuestion, "", cost_info,
                                            QuestionFailedMessage(question_result.error))]
        ELSE [done |-> FALSE, question |-> question_result.question,
              cost_info |->
                IF question_result.has_texts
                THEN [cost_info EXCEPT !.claude_question_generation_cost =
                          sys_calculate_claude_cost(question_result.input_text,
                                                    question_result.output_text)]
                ELSE cost_info,
              result |-> {}]

\* RAGTestSystem.test_single_image, step 2 when the API call failed
sys_test_single_image_rag_failed(img, q, cost_info, api_result) ==
    sys_failure_result(img, q, api_result.answer, cost_info,
                       RagFailedMessage(api_result.error))

\* RAGTestSystem.test_single_image from a successful API call to the end
sys_test_single_image_tail(img, q, cost_info, api_result, b, reply) ==
    LET answer == api_result.answer
        weights == EVALUATION_WEIGHTS
        prompt == Cat(T(708, 285), Cat(QuestionText(q), AnswerInfo(answer).text))
        evaluation_result == evaluate_answer_with_claude_detailed(b, reply, prompt, answer)
        evaluation_scores == evaluation_result.scores
        costs ==
            calculate_total(
                [cost_info EXCEPT
                    !.openai_rag_cost =
                        sys_calculate_openai_cost(QuestionText(q), AnswerInfo(answer).text),
                    !.claude_evaluation_cost =
                        sys_calculate_claude_cost(evaluation_result.input_text,
                                                  evaluation_result.output_text)])
        overall_score ==
            ( Get(evaluation_scores, "technical_accuracy", 0) * Get(weights, "technical_accuracy", 0)
            + Get(evaluation_scores, "completeness", 0) * Get(weights, "completeness", 0)
            + Get(evaluation_scores, "image_reference", 0) * Get(weights, "image_reference", 0)
            + Get(evaluation_scores, "clarity", 0) * Get(weights, "clarity", 0) ) \div 10
    IN  IF ~AnswerInfo(answer).is_str
        \* answer[:100] raises TypeError on None: the outer handler, which
        \* passes no question and no cost_info
        THEN [ev |-> [path |-> "none", evaluation |-> {}],
              result |-> sys_failure_result(img, NoQuestion, "", CostInfo0, "TYPE_ERROR")]
        ELSE [ev |-> [path |-> evaluation_result.path, evaluation |-> evaluation_scores],
              result |->
                [image_path |-> img.path,
                 category |-> extract_category_from_path(img),
                 generated_question |-> q,
                 rag_answer |-> answer,
                 evaluation_scores |-> evaluation_scores,
                 overall_score |-> overall_score,
                 has_image_reference |-> AnswerInfo(answer).keyword,
                 technical_accuracy |-> Get(evaluation_scores, "technical_accuracy", 0),
                 completeness |-> Get(evaluation_scores, "completeness", 0),
                 clarity |-> Get(evaluation_scores, "clarity", 0),
                 cost_info |-> costs,
                 error_message |-> None]]


(* ------------------------------ sessions ------------------------------- *)
\* a session id string: its prefix, and the category, item number and clock
\* reading spliced into it
Session(kind, category, item, time) ==
    [kind |-> kind, category |-> category, item |-> item, time |-> time]

NoSession == Session("None", "", 0, 0)

\* a caller's question text arriving in a session_id parameter
QuestionAsSession == Session("CUSTOM_QUESTION", "", 0, 0)

\* RAGTester.test_single_image, step 2: one session per category and hour
\* unless the caller passed one
core_session(given, category, h) ==
    IF given # NoSession THEN given
    ELSE Session("test_category", category, 0, h)

\* RAGAPIClient.query_rag: the sessionId of the payload
query_rag_session(given, h) ==
    IF given # NoSession THEN given ELSE Session("test_session", "", 0, h)

\* RAGTestSystem.batch_test_images: f"{session_id}_{i}" under the batch's
\* own f"batch_rag_test_{time}"
batch_session(i, h) == Session("batch_rag_test", "", i, h)

\* RAGTestSystem.test_single_image: the default session
sys_session(given, h) ==
    IF given # NoSession THEN given ELSE Session("rag_test", "", 0, h)

\* RAGTester.test_single_image, step 1 with its custom_question branch
core_question(img, custom, b) ==
    IF Truthy(custom)
    THEN [question |-> custom, cost |-> 0, source |-> "custom"]
    ELSE LET g == core_generate(img, b)
         IN  [question |-> g.question, cost |-> g.cost,
              source |-> IF b # "none" THEN "lookup" ELSE "template"]

\* which generator RAGTestSystem.generate_question_from_image runs
sys_question_source(b) == IF b = "none" THEN "template" ELSE "llm"

(* ------------------------------ summaries ------------------------------ *)
RECURSIVE SumSeq(_)
SumSeq(xs) == IF xs = << >> THEN 0 ELSE Head(xs) + SumSeq(Tail(xs))

\* a mean kept as the pair Python divides: sum / count, 0.0 when count = 0
Mean(total, count) == [sum |-> total, count |-> count]

NoSummary == [total_tests |-> 0]

\* SmartRAGTester._display_summary: the numbers it prints
display_summary(rs) ==
    LET total_tests == Len(rs)
        successful_tests == Cardinality({k \in 1..total_tests : rs[k].success})
        scores == [k \in 1..total_tests |->
                      IF rs[k].success THEN rs[k].overall_score ELSE 0]
        technical_scores ==
            [k \in 1..total_tests |->
                Get(rs[k].evaluation_scores, "technical_accuracy", 0)]
        completeness_scores ==
            [k \in 1..total_tests |-> Get(rs[k].evaluation_scores, "completeness", 0)]
        image_references ==
            Cardinality({k \in 1..total_tests : rs[k].has_image_reference})
        total_cost == SumSeq([k \in 1..total_tests |-> rs[k].cost_info.total_cost])
    IN  [total_tests |-> total_tests,
         successful_tests |-> successful_tests,
         success_rate |-> Mean(successful_tests, total_tests),
         avg_score |-> Mean(SumSeq(scores), successful_tests),
         avg_technical |-> Mean(SumSeq(technical_scores), total_tests),
         avg_completeness |-> Mean(SumSeq(completeness_scores), total_tests),
         image_ref_rate |-> Mean(image_references, total_tests),
         total_cost |-> total_cost,
         avg_cost |-> Mean(total_cost, total_tests)]

\* class CostInfo is a dataclass: it has attributes and no get method
CostInfoHasGet == FALSE

NoStats == [raised |-> FALSE, total_tests |-> 0]

\* ReportGenerator._calculate_statistics on results whose cost_info is a
\* CostInfo object, as process_folder_input and process_excel_input make
\* them; raised: cost_info.get raises AttributeError
calculate_statistics(rs) ==
    LET total_tests == Len(rs)
        successful == {k \in 1..total_tests : rs[k].success}
        n == Cardinality(successful)
        Of(f(_)) == SumSeq([k \in 1..total_tests |->
                               IF k \in successful THEN f(rs[k]) ELSE 0])
        Overall(r) == r.overall_score
        Technical(r) == Get(r.evaluation_scores, "technical_accuracy", 0)
        Completeness(r) == Get(r.evaluation_scores, "completeness", 0)
        TotalCost(r) == r.cost_info.total_cost
    IN  IF successful = {}
        THEN [raised |-> FALSE, total_tests |-> total_tests,
              success_rate |-> Mean(0, 1), overall_avg |-> Mean(0, 1),
              technical_avg |-> Mean(0, 1), completeness_avg |-> Mean(0, 1),
              total_cost |-> 0, avg_cost_per_test |-> Mean(0, 1)]
        ELSE IF ~CostInfoHasGet
        THEN [raised |-> TRUE, total_tests |-> total_tests]
        ELSE [raised |-> FALSE, total_tests |-> total_tests,
              success_rate |-> Mean(n, total_tests),
              overall_avg |-> Mean(Of(Overall), n),
              technical_avg |-> Mean(Of(Technical), n),
              completeness_avg |-> Mean(Of(Completeness), n),
              total_cost |-> Of(TotalCost),
              avg_cost_per_test |-> Mean(Of(TotalCost), n)]

(* ------------------------------- state --------------------------------- *)
\* "single": one call of RAGTester.test_single_image; "interactive": one
\* call of InteractiveRAGTester.run_single_test
Modes == {"folder", "excel", "system", "single", "interactive"}

SystemModes == {"system", "interactive"}

PipelineCoreModes == {"folder", "single"}

CustomQuestion == Q("CUSTOM", "")

\* the clock never runs backwards
ClockReadings == now..MaxClock

Init ==
    /\ mode \in Modes
    /\ backend \in (IF mode \in SystemModes THEN {"none", "live"}
                    ELSE {"none", "mock", "live"})
    \* RAGTestSystem.call_main_py_api issues a single request
    /\ retry_count \in (IF mode \in SystemModes THEN {1} ELSE 1..MaxRetry)
    /\ N \in (IF mode \in {"single", "interactive"} THEN {1} ELSE 1..MaxItems)
    /\ supplied_question \in (CASE mode = "single" -> {NoneQuestion, CustomQuestion}
                                [] mode = "interactive" -> {CustomQuestion}
                                [] OTHER -> {NoneQuestion})
    /\ now = 0
    /\ session_id = NoSession
    /\ payload_session = NoSession
    /\ sent_sessions = << >>
    /\ qsource = "none"
    /\ blank_row \in (IF mode = "excel" THEN 0..N ELSE {0})
    /\ pc = "idle"
    /\ idx = 0
    /\ results = << >>
    /\ delays = 0
    /\ question = NoQuestion
    /\ qcost = 0
    /\ requests = 0
    /\ warnings = 0
    /\ sleeps = 0
    /\ last_status = -1
    /\ qstate = "idle"
    /\ rag_response = {}
    /\ evaluation = {}
    /\ eval_path = "none"
    /\ eval_reply = ReplyNone
    /\ summary = NoSummary
    /\ stats = NoStats
    /\ discoverer = "none"
    /\ directory = {}
    /\ runs = << >>
    /\ stages = << >>
    /\ qerror = None
    /\ asked = << >>
    /\ text = EmptyText
    /\ tokens = -1
    /\ estimator = "none"

\* the query variables take the fields of a query_rag state
SetQuery(q) ==
    /\ requests' = q.requests
    /\ warnings' = q.warnings
    /\ sleeps' = q.sleeps
    /\ last_status' = q.last_status
    /\ qstate' = q.qstate
    /\ rag_response' = q.response

CurrentQuery ==
    [requests |-> requests, warnings |-> warnings, sleeps |-> sleeps,
     last_status |-> last_status, qstate |-> qstate, response |-> rag_response,
     error |-> None]

SetEval(ev, reply) ==
    /\ evaluation' = ev.evaluation
    /\ eval_path' = ev.path
    /\ eval_reply' = reply

NoEval == [path |-> "none", evaluation |-> {}]

\* a numbered step of test_single_image, and whether it failed
Stage(name, failed) == [stage |-> name, failed |-> failed]

\* step 2 is entered at the first iteration of the query and has failed
\* when the query raises
QueryStage(st, state) ==
    LET entered == IF st # << >> /\ st[Len(st)].stage = "query" THEN st
                   ELSE Append(st, Stage("query", FALSE))
    IN  IF state = "raised"
        THEN [entered EXCEPT ![Len(entered)].failed = TRUE]
        ELSE entered

\* steps 3 to 5: the evaluation, then the costs and their total
EvaluatedAndCosted(st) == st \o <<Stage("evaluate", FALSE), Stage("cost", FALSE)>>

\* the sleep between items of process_folder_input and batch_test_images
DelayIfMore == delays' = IF idx < N THEN delays + 1 ELSE delays

(* ------------------------- folder mode (core) -------------------------- *)
\* process_folder_input converts the RAGTestResult to a dict; a direct
\* caller of test_single_image gets the RAGTestResult
Returned(r) == IF mode = "folder" THEN result_dict(r) ELSE r

\* process_folder_input takes the next image; test_single_image generates
\* the question and enters query_rag
FolderStartItem ==
    /\ mode \in PipelineCoreModes /\ pc = "idle" /\ idx < N
    /\ LET g == core_question(Image(idx + 1), supplied_question, backend)
       IN  /\ question' = g.question
           /\ qcost' = g.cost
           /\ qsource' = g.source
           /\ stages' = IF g.source = "custom" THEN << >>
                        ELSE <<Stage("generate", FALSE)>>
    /\ \E h \in ClockReadings :
         LET sid == core_session(NoSession, Image(idx + 1).category, h)
         IN  /\ now' = h
             /\ session_id' = sid
             /\ payload_session' = query_rag_session(sid, h)
             /\ sent_sessions' = Append(sent_sessions, [item |-> idx + 1,
                                       category |-> Image(idx + 1).category,
                                       sessionId |-> query_rag_session(sid, h)])
    /\ idx' = idx + 1
    /\ pc' = "query"
    /\ SetQuery(QueryInit)
    /\ SetEval(NoEval, ReplyNone)
    /\ UNCHANGED <<config, offline_vars, results, delays>>

\* one iteration of query_rag; when it raises, test_single_image's handler
\* makes the failure result and the batch loop records it
FolderQueryAttempt ==
    /\ mode \in PipelineCoreModes /\ pc = "query"
    /\ \E r \in Responses :
         LET q == query_rag_attempt(CurrentQuery, r, retry_count)
         IN  /\ SetQuery(q)
             /\ stages' = QueryStage(stages, q.qstate)
             /\ IF q.qstate = "raised"
                THEN /\ results' = Append(results,
                            Returned(test_single_image_except(Image(idx), supplied_question,
                                                              q.error)))
                     /\ DelayIfMore
                     /\ pc' = "idle"
                ELSE /\ pc' = IF q.qstate = "returned" THEN "evaluate" ELSE "query"
                     /\ UNCHANGED <<results, delays>>
    /\ UNCHANGED <<config, offline_vars, item_vars, idx, question, qcost, evaluation, eval_path, eval_reply>>

\* the rest of test_single_image, and the batch loop's append and sleep
FolderEvaluate ==
    /\ mode \in PipelineCoreModes /\ pc = "evaluate"
    /\ \E reply \in Replies(backend) :
         LET t == test_single_image_tail(Image(idx), supplied_question, question, qcost,
                                         rag_response, backend, reply)
         IN  /\ SetEval(t.ev, reply)
             /\ results' = Append(results, Returned(t.result))
    /\ stages' = EvaluatedAndCosted(stages)
    /\ DelayIfMore
    /\ pc' = "idle"
    /\ UNCHANGED <<config, offline_vars, item_vars, idx, question, qcost, requests, warnings, sleeps,
                   last_status, qstate, rag_response>>

(* ----------------------------- Excel mode ------------------------------ *)
\* process_excel_input takes the next row: an empty question cell is
\* skipped, otherwise query_rag is entered
ExcelStartRow ==
    /\ mode = "excel" /\ pc = "idle" /\ idx < N
    /\ idx' = idx + 1
    /\ IF idx + 1 = blank_row
       THEN /\ pc' = "idle"
            /\ question' = NoQuestion
            /\ SetQuery(QueryIdle)
            /\ qsource' = "none"
            /\ payload_session' = NoSession
            /\ UNCHANGED <<now, sent_sessions>>
       ELSE /\ pc' = "query"
            /\ question' = RowQuestion(idx + 1)
            /\ SetQuery(QueryInit)
            /\ qsource' = "custom"
            \* query_rag(question): no session id is passed
            /\ \E h \in ClockReadings :
                 /\ now' = h
                 /\ payload_session' = query_rag_session(NoSession, h)
                 /\ sent_sessions' = Append(sent_sessions, [item |-> idx + 1,
                                           category |-> <<"Excel_Row", idx + 1>>,
                                           sessionId |-> query_rag_session(NoSession, h)])
    /\ session_id' = NoSession
    /\ qcost' = 0
    /\ stages' = << >>
    /\ SetEval(NoEval, ReplyNone)
    /\ UNCHANGED <<config, offline_vars, results, delays>>

\* one iteration of query_rag; when it raises, the row's handler prints
\* and continues with the next row
ExcelQueryAttempt ==
    /\ mode = "excel" /\ pc = "query"
    /\ \E r \in Responses :
         LET q == query_rag_attempt(CurrentQuery, r, retry_count)
         IN  /\ SetQuery(q)
             /\ stages' = QueryStage(stages, q.qstate)
             /\ pc' = CASE q.qstate = "raised" -> "idle"
                        [] q.qstate = "returned" -> "evaluate"
                        [] OTHER -> "query"
    /\ UNCHANGED <<config, offline_vars, item_vars, idx, results, delays, question, qcost,
                   evaluation, eval_path, eval_reply>>

\* the rest of the row: evaluation, costs, the record, the sleep
ExcelEvaluate ==
    /\ mode = "excel" /\ pc = "evaluate"
    /\ \E reply \in Replies(backend) :
         LET t == excel_row_tail(idx, question, rag_response, backend, reply)
         IN  /\ SetEval(t.ev, reply)
             /\ stages' = CASE t.ev.path = "none" -> stages
                             [] t.ev.path = "raised" ->
                                    Append(stages, Stage("evaluate", TRUE))
                             [] OTHER -> EvaluatedAndCosted(stages)
             /\ IF t.dropped
                THEN UNCHANGED <<results, delays>>
                ELSE /\ results' = Append(results, t.result)
                     /\ delays' = delays + 1
    /\ pc' = "idle"
    /\ UNCHANGED <<config, offline_vars, item_vars, idx, question, qcost, requests, warnings, sleeps,
                   last_status, qstate, rag_response>>

(* ------------------------ RAGTestSystem mode --------------------------- *)
SysCostInfo == [CostInfo0 EXCEPT !.claude_question_generation_cost = qcost]

\* batch_test_images takes the next image; test_single_image generates the
\* question, and returns a failure result when generation failed
SystemStartItem ==
    /\ mode \in SystemModes /\ pc = "idle" /\ idx < N
    /\ idx' = idx + 1
    /\ qsource' = sys_question_source(backend)
    \* batch_test_images reads the clock once, before the loop;
    \* run_single_test passes the caller's question as second argument
    /\ \E h \in (IF idx = 0 THEN ClockReadings ELSE {now}) :
         /\ now' = h
         /\ session_id' = IF mode = "interactive"
                           THEN sys_session(QuestionAsSession, h)
                           ELSE sys_session(batch_session(idx + 1, h), h)
    /\ payload_session' = session_id'
    /\ \E g \in GenOutcomes(backend) :
         LET s == sys_test_single_image_generate(Image(idx + 1), backend, g)
         IN  /\ question' = s.question
             /\ qcost' = s.cost_info.claude_question_generation_cost
             /\ stages' = <<Stage("generate",
                    ~sys_generate_question_from_image(Image(idx + 1), backend, g).success)>>
             /\ IF s.done
                THEN /\ results' = Append(results, s.result)
                     /\ delays' = IF idx + 1 < N THEN delays + 1 ELSE delays
                     /\ pc' = "idle"
                     /\ SetQuery(QueryIdle)
                     /\ UNCHANGED sent_sessions
                ELSE /\ pc' = "query"
                     /\ SetQuery(QueryInit)
                     /\ sent_sessions' = Append(sent_sessions, [item |-> idx + 1,
                                               category |-> Image(idx + 1).category,
                                               sessionId |-> session_id'])
                     /\ UNCHANGED <<results, delays>>
    /\ SetEval(NoEval, ReplyNone)
    /\ UNCHANGED <<config, offline_vars>>

\* call_main_py_api; on failure test_single_image returns a failure result
SystemCallApi ==
    /\ mode \in SystemModes /\ pc = "query"
    /\ \E r \in Responses :
         LET api_result == call_main_py_api(r)
         IN  /\ requests' = requests + 1
             /\ last_status' = r.status
             /\ rag_response' = api_result.raw_response
             /\ stages' = QueryStage(stages, IF api_result.success THEN "returned"
                                             ELSE "raised")
             /\ IF api_result.success
                THEN /\ qstate' = "returned"
                     /\ pc' = "evaluate"
                     /\ UNCHANGED <<results, delays>>
                ELSE /\ qstate' = "raised"
                     /\ results' = Append(results,
                            sys_test_single_image_rag_failed(Image(idx), question,
                                                             SysCostInfo, api_result))
                     /\ DelayIfMore
                     /\ pc' = "idle"
    /\ UNCHANGED <<config, offline_vars, item_vars, idx, question, qcost, warnings, sleeps,
                   evaluation, eval_path, eval_reply>>

\* the rest of test_single_image, and the batch loop's append and sleep
SystemEvaluate ==
    /\ mode \in SystemModes /\ pc = "evaluate"
    /\ \E r \in Responses, reply \in Replies(backend) :
         /\ r.status = 200 /\ r.body.json /\ r.body.fields = rag_response
         /\ LET t == sys_test_single_image_tail(Image(idx), question, SysCostInfo,
                                                call_main_py_api(r), backend, reply)
            IN  /\ SetEval(t.ev, reply)
                /\ stages' = IF t.result.error_message = None
                             THEN EvaluatedAndCosted(stages) ELSE stages
                /\ results' = Append(results, t.result)
    /\ DelayIfMore
    /\ pc' = "idle"
    /\ UNCHANGED <<config, offline_vars, item_vars, idx, question, qcost, requests, warnings, sleeps,
                   last_status, qstate, rag_response>>

(* ------------------------------ the batch ------------------------------ *)
\* the loop is exhausted: the batch returns `results`
Finish ==
    /\ pc = "idle" /\ idx = N
    /\ pc' = "done"
    /\ UNCHANGED <<config, offline_vars, item_vars, stages, idx, results, delays, question, qcost, requests,
                   warnings, sleeps, last_status, qstate, rag_response, evaluation,
                   eval_path, eval_reply>>

Next ==
    \/ FolderStartItem
    \/ FolderQueryAttempt
    \/ FolderEvaluate
    \/ ExcelStartRow
    \/ ExcelQueryAttempt
    \/ ExcelEvaluate
    \/ SystemStartItem
    \/ SystemCallApi
    \/ SystemEvaluate
    \/ Finish

Spec == Init /\ [][Next]_vars

(* --------------------- the summary of a finished batch ------------------ *)
\* the results in hand when run_smart_test reports
MaxSummaryItems == 3

\* how a request of a folder item can fail for good
QueryErrors == {"API_TIMEOUT", "JSON_DECODE_ERROR"}

\* the parsed bodies query_rag can return
ReturnedBodies == {b.fields : b \in {x \in Bodies : x.json}}

\* the dicts process_folder_input (m = "folder") and process_excel_input
\* can append for item i
BatchRecords(m, i, b) ==
    IF m = "folder"
    THEN LET g == core_question(Image(i), NoneQuestion, b)
         IN  {result_dict(test_single_image_except(Image(i), NoneQuestion, e)) :
                  e \in QueryErrors}
             \cup {result_dict(test_single_image_tail(Image(i), NoneQuestion, g.question,
                                                      g.cost, f, b, reply).result) :
                       f \in ReturnedBodies, reply \in Replies(b)}
    ELSE LET Rows == {excel_row_tail(i, RowQuestion(i), f, b, reply) :
                          f \in ReturnedBodies, reply \in Replies(b)}
         IN  {t.result : t \in {x \in Rows : ~x.dropped}}

InitSummary ==
    /\ mode \in {"folder", "excel"}
    /\ backend \in {"live", "none"}
    /\ retry_count = 1
    /\ N \in 1..MaxSummaryItems
    /\ blank_row = 0
    /\ supplied_question = NoneQuestion
    /\ idx = 0
    /\ pc = "collect"
    /\ results = << >>
    /\ delays = 0
    /\ question = NoQuestion
    /\ qcost = 0
    /\ requests = 0 /\ warnings = 0 /\ sleeps = 0 /\ last_status = -1
    /\ qstate = "idle"
    /\ rag_response = {}
    /\ evaluation = {}
    /\ eval_path = "none"
    /\ eval_reply = ReplyNone
    /\ now = 0
    /\ session_id = NoSession
    /\ payload_session = NoSession
    /\ sent_sessions = << >>
    /\ qsource = "none"
    /\ summary = NoSummary
    /\ stats = NoStats
    /\ discoverer = "none"
    /\ directory = {}
    /\ runs = << >>
    /\ stages = << >>
    /\ qerror = None
    /\ asked = << >>
    /\ text = EmptyText
    /\ tokens = -1
    /\ estimator = "none"

summary_frame ==
    <<config, item_vars, delays, question, qcost, requests, warnings, sleeps,
      last_status, qstate, rag_response, evaluation, eval_path, eval_reply,
      discoverer, directory, runs, stages, qerror, asked, text, tokens, estimator>>

\* the batch loop appends the dict of one more item
CollectResult ==
    /\ pc = "collect" /\ idx < N
    /\ \E r \in BatchRecords(mode, idx + 1, backend) : results' = Append(results, r)
    /\ idx' = idx + 1
    /\ UNCHANGED <<summary_frame, pc, summary, stats>>

\* _display_summary applied to the results of the batch
DisplaySummary ==
    /\ pc = "collect" /\ idx = N
    /\ summary' = display_summary(results)
    /\ pc' = "summarised"
    /\ UNCHANGED <<summary_frame, idx, results, stats>>

\* generate_html_report's call of _calculate_statistics on the same results
CalculateStatistics ==
    /\ pc \in {"collect", "summarised"} /\ idx = N
    /\ stats' = calculate_statistics(results)
    /\ pc' = IF stats'.raised THEN "raised" ELSE "reported"
    /\ UNCHANGED <<summary_frame, idx, results, summary>>

NextSummary ==
    \/ CollectResult
    \/ DisplaySummary
    \/ CalculateStatistics

SpecSummary == InitSummary /\ [][NextSummary]_vars


(* -------------------------- category discovery -------------------------- *)
\* The files an image directory can hold, in the lexicographic order of
\* their paths.  `dir` is the path of the file's directory below the image
\* directory, `starts` the tested prefixes the name begins with, `prefix`
\* the text before "_page_" with trailing dots stripped (None: the name has
\* no "_page_").
Files ==
    << [path |-> "1.0LVDS_page_1.png", dir |-> << >>, suffix |-> ".png",
        starts |-> {"1.0"}, prefix |-> "1.0LVDS"],
       [path |-> "QSA._page_1.png", dir |-> << >>, suffix |-> ".png",
        starts |-> {"QSA"}, prefix |-> "QSA"],
       [path |-> "QSA._page_2.png", dir |-> << >>, suffix |-> ".png",
        starts |-> {"QSA"}, prefix |-> "QSA"],
       [path |-> "catA/p1.PNG", dir |-> <<"catA">>, suffix |-> ".PNG",
        starts |-> {}, prefix |-> None],
       [path |-> "catA/p2.jpg", dir |-> <<"catA">>, suffix |-> ".jpg",
        starts |-> {}, prefix |-> None],
       [path |-> "misc.png", dir |-> << >>, suffix |-> ".png",
        starts |-> {}, prefix |-> None],
       [path |-> "notes.txt", dir |-> << >>, suffix |-> ".txt",
        starts |-> {}, prefix |-> None],
       [path |-> "x/catA/p3.png", dir |-> <<"x", "catA">>, suffix |-> ".png",
        starts |-> {}, prefix |-> None] >>

\* the files of one directory
MaxFiles == 3

Range(xs) == {xs[i] : i \in 1..Len(xs)}

\* the orders in which a set can be enumerated
Enumerations(S) ==
    {e \in [1..Cardinality(S) -> S] : \A i, j \in 1..Cardinality(S) : e[i] = e[j] => i = j}

\* the place of a path in the lexicographic order of str
Rank(path) == CHOOSE i \in 1..Len(Files) : Files[i].path = path

\* sorted() of a list of paths
RECURSIVE sorted(_)
sorted(paths) ==
    IF paths = {} THEN << >>
    ELSE LET first == CHOOSE x \in paths : \A y \in paths : Rank(x) <= Rank(y)
         IN  <<first>> \o sorted(paths \ {first})

\* Path(file).suffix.lower()
lower(suffix) == IF suffix = ".PNG" THEN ".png" ELSE suffix

image_extensions == {".png", ".jpg", ".jpeg", ".gif", ".bmp"}

\* A dict as the sequence of its items in insertion order
DictGet(d, k) ==
    IF \E i \in 1..Len(d) : d[i].key = k
    THEN d[CHOOSE i \in 1..Len(d) : d[i].key = k].members
    ELSE << >>

\* d[k] = v: a key the dict has keeps its place
DictSet(d, k, v) ==
    IF \E i \in 1..Len(d) : d[i].key = k
    THEN [i \in 1..Len(d) |-> IF d[i].key = k THEN [key |-> k, members |-> v] ELSE d[i]]
    ELSE Append(d, [key |-> k, members |-> v])

\* the category a root image gets from the start of its file name
prefix_category(f) ==
    FirstMatch(<< <<{"1.0"}, "1.0_LVDS">>, <<{"1.1"}, "1.1_CABLE_SPEC">>,
                  <<{"1.2"}, "1.2_WIRE_HARNESS">>, <<{"1.3"}, "1.3_WH">>,
                  <<{"1.4"}, "1.4_FFC_SPEC">>, <<{"1.STAR"}, "1.STAR_CABLE_PRODUCT">>,
                  <<{"2.0"}, "2.0_EXT_DESIGN">>, <<{"2.1"}, "2.1_EC_PROCESS">>,
                  <<{"2.2"}, "2.2_EXT_APPLY">>, <<{"2.3"}, "2.3_EC_BRIEF">>,
                  <<{"3.0"}, "3.0_AUTO_WIRE">>, <<{"3.1"}, "3.1_AT_CABLE">>,
                  <<{"QSA"}, "QSA_AUDIT">>, <<{"Wire"}, "WIRE_HARNESS_INTRO">>,
                  <<{"cable"}, "CABLE_TRAINING">>, <<{"DRAWING_ID"}, "DRAWING_ID_COURSE">>,
                  <<{"MATERIAL"}, "MATERIAL_INTRO">>, <<{"PRODUCTION_LINE"}, "PRODUCTION_LINE">>,
                  <<{"CUSTOMER"}, "CUSTOMER">>, <<{"CONTRACT"}, "CONTRACT">>,
                  <<{"PRODUCT"}, "PRODUCT_CHANGE">>, <<{"DRAWING"}, "DRAWING_GUIDE">>,
                  <<{"CHECKLIST"}, "CHECKLIST">> >>,
               f.starts, "OTHER_IMAGES")

\* the loop that fills a dict of lists: each file is appended to the list
\* of its key, a new key after the keys the dict has
RECURSIVE Grouped(_, _)
Grouped(items, d) ==
    IF items = << >> THEN d
    ELSE Grouped(Tail(items),
                 DictSet(d, Head(items).key,
                         Append(DictGet(d, Head(items).key), Head(items).path)))

\* the loop over os.walk: a directory with images sets the key of its
\* base name
RECURSIVE Walked(_, _, _)
Walked(walk, dir_files, d) ==
    IF walk = << >> THEN d
    ELSE LET root == Head(walk)
             image_files == {f.path : f \in {x \in dir_files :
                                 x.dir = root /\ lower(x.suffix) \in image_extensions}}
         IN  Walked(Tail(walk), dir_files,
                    IF image_files # {}
                    THEN DictSet(d, root[Len(root)], sorted(image_files))
                    ELSE d)

\* ImageProcessor.get_image_categories.  listing: os.listdir of the image
\* directory; walk: the subdirectories in the order os.walk yields them
get_image_categories(dir_files, listing, walk) ==
    LET root_images ==
            SelectSeq(listing, LAMBDA f : f.dir = << >>
                                          /\ lower(f.suffix) \in image_extensions)
        prefix_categories ==
            Grouped([i \in 1..Len(root_images) |->
                        [key |-> prefix_category(root_images[i]),
                         path |-> root_images[i].path]], << >>)
        categories ==
            [i \in 1..Len(prefix_categories) |->
                [key |-> prefix_categories[i].key,
                 members |-> sorted(Range(prefix_categories[i].members))]]
    IN  Walked(walk, dir_files, categories)

\* RAGTestSystem.get_image_categories.  globbed: images_dir.glob("*.png")
sys_get_image_categories(globbed) ==
    LET paged == SelectSeq(globbed, LAMBDA f : f.prefix # None)
    IN  Grouped([i \in 1..Len(paged) |->
                    [key |-> paged[i].prefix, path |-> paged[i].path]], << >>)

\* the subdirectories below the image directory
Subdirectories(dir_files) ==
    UNION {{SubSeq(f.dir, 1, k) : k \in 1..Len(f.dir)} : f \in dir_files}

IsAncestor(a, b) == Len(a) < Len(b) /\ SubSeq(b, 1, Len(a)) = a

\* os.walk is top-down and depth-first; the order of a directory's entries
\* is the file system's
WalkOrders(dir_files) ==
    {w \in Enumerations(Subdirectories(dir_files)) :
        /\ \A i, j \in 1..Len(w) : IsAncestor(w[i], w[j]) => i < j
        /\ \A i, j, k \in 1..Len(w) :
               (i < j /\ j < k /\ IsAncestor(w[i], w[k])) => IsAncestor(w[i], w[j])}

InitDiscovery ==
    /\ mode = "folder"
    /\ backend = "none"
    /\ retry_count = 1
    /\ N = 0
    /\ blank_row = 0
    /\ supplied_question = NoneQuestion
    /\ idx = 0
    /\ pc = "discover"
    /\ results = << >>
    /\ delays = 0
    /\ question = NoQuestion
    /\ qcost = 0
    /\ requests = 0 /\ warnings = 0 /\ sleeps = 0 /\ last_status = -1
    /\ qstate = "idle"
    /\ rag_response = {}
    /\ evaluation = {}
    /\ eval_path = "none"
    /\ eval_reply = ReplyNone
    /\ now = 0
    /\ session_id = NoSession
    /\ payload_session = NoSession
    /\ sent_sessions = << >>
    /\ qsource = "none"
    /\ summary = NoSummary
    /\ stats = NoStats
    /\ discoverer \in {"utils", "system"}
    /\ directory \in {d \in SUBSET Range(Files) : Cardinality(d) <= MaxFiles}
    /\ runs = << >>
    /\ stages = << >>
    /\ qerror = None
    /\ asked = << >>
    /\ text = EmptyText
    /\ tokens = -1
    /\ estimator = "none"

discovery_rest ==
    <<config, idx, pc, results, delays, question, qcost, requests,
      warnings, sleeps, last_status, qstate, rag_response, evaluation, eval_path,
      eval_reply, summary, stats, discoverer, directory, stages, qerror, asked,
      text, tokens, estimator>>

discovery_frame == <<discovery_rest, item_vars>>

\* one call of ImageProcessor.get_image_categories on the directory
DiscoverCategories ==
    /\ discoverer = "utils" /\ Len(runs) < 2
    /\ \E listing \in Enumerations(directory), walk \in WalkOrders(directory) :
         runs' = Append(runs, get_image_categories(directory, listing, walk))
    /\ UNCHANGED discovery_frame

\* one call of RAGTestSystem.get_image_categories on the directory
SysDiscoverCategories ==
    /\ discoverer = "system" /\ Len(runs) < 2
    /\ \E globbed \in Enumerations({f \in directory : f.dir = << >> /\ f.suffix = ".png"}) :
         runs' = Append(runs, sys_get_image_categories(globbed))
    /\ UNCHANGED discovery_frame

\* Path(image_path).parent.name of a listed file: for a file of the image
\* directory itself, the name of that directory
parent_name(f) == IF f.dir = << >> THEN "IMAGE_DIR" ELSE f.dir[Len(f.dir)]

\* process_folder_input hands an image of the listing to
\* RAGTester.test_single_image, which derives the category and the session
\* id from the path
TestListedImage ==
    /\ discoverer = "utils" /\ runs # << >> /\ sent_sessions = << >>
    /\ \E c \in 1..Len(runs[1]) : \E k \in 1..Len(runs[1][c].members) :
         LET f == Files[Rank(runs[1][c].members[k])]
             category == parent_name(f)
             sid == core_session(NoSession, category, now)
         IN  /\ session_id' = sid
             /\ payload_session' = query_rag_session(sid, now)
             /\ sent_sessions' = <<[item |-> f.path, listed |-> runs[1][c].key,
                                    category |-> category, sessionId |-> sid]>>
    /\ UNCHANGED <<discovery_rest, runs, now, qsource>>

NextDiscovery ==
    \/ DiscoverCategories
    \/ SysDiscoverCategories
    \/ TestListedImage

SpecDiscovery == InitDiscovery /\ [][NextDiscovery]_vars


(* ------------------------- query_rag by itself -------------------------- *)
\* the session id arguments of a call
SessionArguments == {NoSession, Session("test_category", "catA", 0, 0)}

InitQuery ==
    /\ mode = "single"
    /\ backend = "none"
    /\ retry_count \in -1..MaxRetry
    /\ N = 1
    /\ blank_row = 0
    /\ supplied_question = CustomQuestion
    /\ idx = 0
    /\ pc = "call"
    /\ results = << >>
    /\ delays = 0
    /\ question = CustomQuestion
    /\ qcost = 0
    /\ requests = 0 /\ warnings = 0 /\ sleeps = 0 /\ last_status = -1
    /\ qstate = "idle"
    /\ rag_response = {}
    /\ evaluation = {}
    /\ eval_path = "none"
    /\ eval_reply = ReplyNone
    /\ now = 0
    /\ session_id \in SessionArguments
    /\ payload_session = NoSession
    /\ sent_sessions = << >>
    /\ qsource = "custom"
    /\ summary = NoSummary
    /\ stats = NoStats
    /\ discoverer = "none"
    /\ directory = {}
    /\ runs = << >>
    /\ stages = << >>
    /\ qerror = None
    /\ asked = << >>
    /\ text = EmptyText
    /\ tokens = -1
    /\ estimator = "none"

query_frame ==
    <<config, idx, results, delays, question, qcost, evaluation, eval_path,
      eval_reply, session_id, sent_sessions, qsource, summary, stats, discoverer,
      directory, runs, stages, asked, text, tokens, estimator>>

\* query_rag is called: the payload is built before the loop
QueryRagCall ==
    /\ pc = "call"
    /\ \E h \in ClockReadings :
         /\ now' = h
         /\ payload_session' = query_rag_session(session_id, h)
    /\ SetQuery(QueryInit)
    /\ pc' = "query"
    /\ UNCHANGED <<query_frame, qerror>>

\* one iteration of `for attempt in range(self.retry_count)`
QueryRagAttempt ==
    /\ pc = "query" /\ requests < retry_count
    /\ \E r \in Responses :
         LET q == query_rag_attempt(CurrentQuery, r, retry_count)
         IN  /\ SetQuery(q)
             /\ qerror' = q.error
             /\ pc' = IF q.qstate = "running" THEN "query" ELSE "exit"
    /\ UNCHANGED <<query_frame, now, payload_session>>

\* the loop is exhausted: the raise after it
QueryRagExhausted ==
    /\ pc = "query" /\ requests >= retry_count
    /\ qstate' = "raised"
    /\ qerror' = "RAG_QUERY_FAILED"
    /\ pc' = "exit"
    /\ UNCHANGED <<query_frame, now, payload_session, requests, warnings, sleeps,
                   last_status, rag_response>>

NextQuery ==
    \/ QueryRagCall
    \/ QueryRagAttempt
    \/ QueryRagExhausted

SpecQuery == InitQuery /\ [][NextQuery]_vars


(* ---------------------- question generation by itself ------------------- *)
\* the questions generated in one session
MaxAsked == 3

InitQuestion ==
    /\ mode \in {"single", "system"}
    /\ backend \in (IF mode = "system" THEN {"none", "live"} ELSE {"none", "mock", "live"})
    /\ retry_count = 1
    /\ N = 1
    /\ blank_row = 0
    /\ supplied_question = NoneQuestion
    /\ idx = 0
    /\ pc = "generate"
    /\ results = << >>
    /\ delays = 0
    /\ question = NoQuestion
    /\ qcost = 0
    /\ requests = 0 /\ warnings = 0 /\ sleeps = 0 /\ last_status = -1
    /\ qstate = "idle"
    /\ rag_response = {}
    /\ evaluation = {}
    /\ eval_path = "none"
    /\ eval_reply = ReplyNone
    /\ now = 0
    /\ session_id = NoSession
    /\ payload_session = NoSession
    /\ sent_sessions = << >>
    /\ qsource = "none"
    /\ summary = NoSummary
    /\ stats = NoStats
    /\ discoverer = "none"
    /\ directory = {}
    /\ runs = << >>
    /\ stages = << >>
    /\ qerror = None
    /\ asked = << >>
    /\ text = EmptyText
    /\ tokens = -1
    /\ estimator = "none"

question_frame ==
    <<config, item_vars, idx, pc, results, delays, qcost, requests, warnings,
      sleeps, last_status, qstate, rag_response, evaluation, eval_path, eval_reply,
      summary, stats, discoverer, directory, runs, stages, qerror, text, tokens,
      estimator>>

\* step 1 of RAGTester.test_single_image on any image of the corpus
GenerateQuestion ==
    /\ mode = "single" /\ Len(asked) < MaxAsked
    /\ \E i \in 1..Len(Corpus) :
         LET g == core_question(Image(i), supplied_question, backend)
         IN  /\ question' = g.question
             /\ asked' = Append(asked, [item |-> i, success |-> TRUE,
                                        question |-> g.question])
    /\ UNCHANGED question_frame

\* RAGTestSystem.generate_question_from_image on any image of the corpus
SysGenerateQuestion ==
    /\ mode = "system" /\ Len(asked) < MaxAsked
    /\ \E i \in 1..Len(Corpus), g \in GenOutcomes(backend) :
         LET question_result == sys_generate_question_from_image(Image(i), backend, g)
         IN  /\ question' = question_result.question
             /\ asked' = Append(asked, [item |-> i, success |-> question_result.success,
                                        question |-> question_result.question])
    /\ UNCHANGED question_frame

NextQuestion ==
    \/ GenerateQuestion
    \/ SysGenerateQuestion

SpecQuestion == InitQuestion /\ [][NextQuestion]_vars


(* ------------------------ token estimation by itself -------------------- *)
\* the length of the estimated text
MaxTextLen == 12

InitTokens ==
    /\ mode = "single"
    /\ backend = "none"
    /\ retry_count = 1
    /\ N = 1
    /\ blank_row = 0
    /\ supplied_question = NoneQuestion
    /\ idx = 0
    /\ pc = "estimate"
    /\ results = << >>
    /\ delays = 0
    /\ question = NoQuestion
    /\ qcost = 0
    /\ requests = 0 /\ warnings = 0 /\ sleeps = 0 /\ last_status = -1
    /\ qstate = "idle"
    /\ rag_response = {}
    /\ evaluation = {}
    /\ eval_path = "none"
    /\ eval_reply = ReplyNone
    /\ now = 0
    /\ session_id = NoSession
    /\ payload_session = NoSession
    /\ sent_sessions = << >>
    /\ qsource = "none"
    /\ summary = NoSummary
    /\ stats = NoStats
    /\ discoverer = "none"
    /\ directory = {}
    /\ runs = << >>
    /\ stages = << >>
    /\ qerror = None
    /\ asked = << >>
    /\ text \in {T(l, c) : l \in 0..MaxTextLen, c \in 0..MaxTextLen}
    /\ text.cjk <= text.len
    /\ tokens = -1
    /\ estimator \in {"core", "system"}

tokens_frame ==
    <<config, item_vars, idx, results, delays, question, qcost, requests, warnings,
      sleeps, last_status, qstate, rag_response, evaluation, eval_path, eval_reply,
      summary, stats, discoverer, directory, runs, stages, qerror, asked, text,
      estimator>>

\* core CostCalculator.estimate_tokens(text)
EstimateTokens ==
    /\ pc = "estimate" /\ estimator = "core"
    /\ tokens' = estimate_tokens(text)
    /\ pc' = "estimated"
    /\ UNCHANGED tokens_frame

\* rag_test_system CostCalculator.estimate_tokens(text)
SysEstimateTokens ==
    /\ pc = "estimate" /\ estimator = "system"
    /\ tokens' = sys_estimate_tokens(text)
    /\ pc' = "estimated"
    /\ UNCHANGED tokens_frame

NextTokens ==
    \/ EstimateTokens
    \/ SysEstimateTokens

SpecTokens == InitTokens /\ [][NextTokens]_vars



(* ======================= properties of the harness ====================== *)
CoreModes == {"folder", "excel", "single"}

PipelineModes == {"folder", "system", "single", "interactive"}

\* the current item's pipeline has returned to the batch loop
ItemReturned == idx > 0 /\ pc \in {"idle", "done"}

\* the item (image or row index) a record was made for
ItemOf(r) ==
    IF mode = "excel" THEN r.category[2]
    ELSE CHOOSE i \in 1..Len(Corpus) : Corpus[i].path = r.image_path

\* the records of the current item
CurrentRecords == {k \in 1..Len(results) : ItemOf(results[k]) = idx}

AnswerKeys == {"response", "reply", "answer"}

Placeholders == {"", "PLACEHOLDER", "SYS_PLACEHOLDER"}

\* 10 * overall is the weighted sum of the criterion scores of `scores`
WeightedSum(scores, weights) ==
      Get(scores, "technical_accuracy", 0) * Get(weights, "technical_accuracy", 0)
    + Get(scores, "completeness", 0) * Get(weights, "completeness", 0)
    + Get(scores, "clarity", 0) * Get(weights, "clarity", 0)
    + Get(scores, "image_reference", 0) * Get(weights, "image_reference", 0)

WeightsOf(m) == IF m \in SystemModes THEN EVALUATION_WEIGHTS ELSE EVALUATION_CRITERIA

\* C1: query_rag with retry_count = N >= 1 raises only after exactly N
\* requests, all of them failed, and the first attempt that returns HTTP 200
\* ends the call: it returns and no further request is issued.
C1_RetryContract ==
    mode \in CoreModes =>
        /\ (qstate = "raised" => requests = retry_count /\ last_status # 200)
        /\ (last_status = 200 => qstate = "returned")
        /\ (qstate = "running" => requests < retry_count)

\* C2: when the RAG query fails after the question was generated, the
\* pipeline's result has error_message set, generated_question equal to the
\* generated question, and an empty rag_answer.
C2_FailurePreservesQuestion ==
    (mode \in PipelineModes /\ ItemReturned /\ qstate = "raised") =>
        /\ CurrentRecords # {}
        /\ \A k \in CurrentRecords :
              /\ results[k].error_message # None
              /\ results[k].generated_question = question
              /\ results[k].rag_answer = ""

\* C3: in every result, total_cost is the sum of the three cost components,
\* and a failed result has all three components zero.
C3_CostTotals ==
    \A k \in 1..Len(results) :
        LET c == results[k].cost_info
        IN  /\ c.total_cost = c.claude_question_generation_cost
                              + c.claude_evaluation_cost + c.openai_rag_cost
            /\ results[k].error_message # None =>
                   /\ c.claude_question_generation_cost = 0
                   /\ c.claude_evaluation_cost = 0
                   /\ c.openai_rag_cost = 0

\* C4: on every evaluation path, overall_score is the weighted sum of the
\* criterion scores under the configured weights.
C4_OverallIsWeightedSum ==
    /\ (mode \in CoreModes /\ evaluation # {}) =>
           10 * Get(evaluation, "overall_score", 0)
               = WeightedSum(evaluation, EVALUATION_CRITERIA)
    /\ \A k \in 1..Len(results) :
           results[k].error_message = None =>
               10 * results[k].overall_score
                   = WeightedSum(results[k].evaluation_scores, WeightsOf(mode))

\* C5: every criterion score of every evaluation lies in [0, 1], whatever
\* numbers the backend's JSON reply holds.
C5_ScoresInUnitInterval ==
    /\ \A p \in evaluation : p[1] \in Criteria => 0 <= p[2] /\ p[2] <= 1000
    /\ \A k \in 1..Len(results) :
           \A p \in results[k].evaluation_scores :
               p[1] \in Criteria => 0 <= p[2] /\ p[2] <= 1000

\* the items the batch selected: every image, every row with a question
Selected == {i \in 1..N : i # blank_row}

\* the k-th selected item
SelectedAt(k) == IF blank_row # 0 /\ k >= blank_row THEN k + 1 ELSE k

\* C6: a batch over N selected items returns exactly N records, in item
\* order (an item whose query failed has a record, with error_message set).
C6_BatchReturnsAllItems ==
    pc = "done" =>
        /\ Len(results) = Cardinality(Selected)
        /\ \A k \in 1..Len(results) : ItemOf(results[k]) = SelectedAt(k)

\* a failed result: error_message set, every score zero, no evaluation
FailedShape(r) ==
    /\ r.error_message # None
    /\ r.overall_score = 0
    /\ r.technical_accuracy = 0
    /\ r.completeness = 0
    /\ r.clarity = 0
    /\ r.evaluation_scores = {}

\* a scored result: no error_message, every score field read from the one
\* evaluation the record carries
ScoredShape(r) ==
    /\ r.error_message = None
    /\ r.evaluation_scores # {}
    /\ r.technical_accuracy = Get(r.evaluation_scores, "technical_accuracy", 0)
    /\ r.completeness = Get(r.evaluation_scores, "completeness", 0)
    /\ r.clarity = Get(r.evaluation_scores, "clarity", 0)
    /\ IF mode \in SystemModes
       THEN 10 * r.overall_score = WeightedSum(r.evaluation_scores, EVALUATION_WEIGHTS)
       ELSE r.overall_score = Get(r.evaluation_scores, "overall_score", 0)

\* C7: every result of the per-item pipeline is either failed (error_message
\* set, all scores zero, no evaluation scores) or scored (error_message unset,
\* scores taken from one completed evaluation, the one made for that item);
\* never a mixture.
C7_NoPartialResult ==
    mode \in PipelineModes =>
        /\ \A k \in 1..Len(results) :
               FailedShape(results[k]) \/ ScoredShape(results[k])
        /\ (ItemReturned /\ eval_path # "none") =>
               \A k \in CurrentRecords :
                   results[k].error_message = None =>
                       results[k].evaluation_scores = evaluation

\* C7 witness: a batch holding a failed record and then a scored one
C7_Witness ==
    /\ mode = "folder"
    /\ Len(results) = 2
    /\ FailedShape(results[1])
    /\ ScoredShape(results[2])
    /\ results[2].overall_score > 0

\* C8: when attempts 1..k-1 fail by timeout or non-200 status (each logs one
\* warning) and attempt k returns 200, query_rag returns with exactly k-1
\* warnings logged.
C8_WarningsBeforeSuccess ==
    (mode \in CoreModes /\ last_status = 200 /\ warnings = requests - 1) =>
        qstate = "returned"

\* C9: a 200 response whose body cannot be parsed, or holds none of the
\* answer fields, neither raises nor fails the item nor costs a further
\* attempt: the item gets a record with an empty or placeholder answer and
\* no error_message.
C9_Bad200StillAnswers ==
    (last_status = 200
         /\ (qstate # "returned" \/ {p \in rag_response : p[1] \in AnswerKeys} = {})) =>
        /\ qstate = "returned"
        /\ ItemReturned =>
               /\ CurrentRecords # {}
               /\ \A k \in CurrentRecords :
                      /\ results[k].error_message = None
                      /\ results[k].rag_answer \in Placeholders

\* C10: only an exhausted RAG retry loop puts an error_message on a result;
\* a failed question generation or evaluation never does.
C10_OnlyQueryFailureFailsItem ==
    ItemReturned =>
        \A k \in CurrentRecords :
            results[k].error_message # None =>
                qstate = "raised" /\ requests = retry_count

\* C11: with no session id passed by the caller, two items of one category
\* processed in one folder batch are sent with the same sessionId, whenever
\* each of them is processed.
C11_CategorySharesSession ==
    mode = "folder" =>
        \A i, j \in 1..Len(sent_sessions) :
            sent_sessions[i].category = sent_sessions[j].category =>
                sent_sessions[i].sessionId = sent_sessions[j].sessionId

\* C12: when the caller supplies a question, generation is not invoked, the
\* question sent to the RAG endpoint and recorded as generated_question is
\* the supplied one, and the question-generation cost is zero.
C12_CustomQuestionUsed ==
    (Truthy(supplied_question) /\ idx > 0) =>
        /\ qsource = "custom"
        /\ question = supplied_question
        /\ \A k \in CurrentRecords :
               /\ results[k].generated_question = supplied_question
               /\ results[k].cost_info.claude_question_generation_cost = 0

\* C18: every request of a query_rag call carries the session_id argument
\* the call was given; the client never substitutes one of its own.
C18_SessionIsTransport ==
    (mode \in CoreModes /\ requests > 0) => payload_session = session_id

\* C19: a question produced without an LLM call (template or filename
\* lookup) has question-generation cost zero in the item's result.
C19_SecondaryPathIsFree ==
    (qsource \in {"template", "lookup"} /\ ItemReturned) =>
        \A k \in CurrentRecords :
            results[k].cost_info.claude_question_generation_cost = 0

\* C16: evaluating an answer that was obtained returns a scores mapping and
\* never raises, with the backend healthy, failing or absent, in folder and
\* Excel mode.
C16_EvaluationNeverRaises ==
    (mode \in {"folder", "excel"} /\ ItemReturned /\ qstate = "returned"
         /\ rag_response # {}) =>
        /\ eval_path \notin {"none", "raised"}
        /\ evaluation # {}

\* C17: in an evaluation parsed from the backend's JSON reply, a criterion
\* the reply misses, or scores outside [0, 1], gets the score 0.5.
C17_MissingOrOutOfRangeIsHalf ==
    eval_path \in {"parsed", "clamped"} =>
        \A k \in Criteria :
            (~Has(eval_reply.data, k)
                 \/ Get(eval_reply.data, k, 0) < 0
                 \/ Get(eval_reply.data, k, 0) > 1000) =>
                Get(evaluation, k, -1) = 500

\* the rational a mean stands for, as numerator and positive denominator
MeanValue(m) == IF m.count = 0 THEN <<0, 1>> ELSE <<m.sum, m.count>>

SameMean(a, b) ==
    MeanValue(a)[1] * MeanValue(b)[2] = MeanValue(b)[1] * MeanValue(a)[2]

\* the results the summary counts as successful
Successful == {k \in 1..Len(results) : results[k].success}

SumOver(ks, f(_)) ==
    SumSeq([k \in 1..Len(results) |-> IF k \in ks THEN f(results[k]) ELSE 0])

OverallOf(r) == r.overall_score

TechnicalOf(r) == Get(r.evaluation_scores, "technical_accuracy", 0)

CompletenessOf(r) == Get(r.evaluation_scores, "completeness", 0)

TotalCostOf(r) == r.cost_info.total_cost

\* C13: the success rate of the batch summary is the number of results
\* with no error message and an overall score above zero, over the number
\* of results.
C13_SuccessRate ==
    pc = "summarised" =>
        SameMean(summary.success_rate,
                 Mean(Cardinality({k \in 1..Len(results) :
                                      /\ results[k].error_message = None
                                      /\ results[k].overall_score > 0}),
                      Len(results)))

\* C14: the summary's mean overall, mean technical accuracy and mean
\* completeness are means over the successful results only.
C14_MeansOverSuccessful ==
    pc = "summarised" =>
        /\ SameMean(summary.avg_score,
                    Mean(SumOver(Successful, OverallOf), Cardinality(Successful)))
        /\ SameMean(summary.avg_technical,
                    Mean(SumOver(Successful, TechnicalOf), Cardinality(Successful)))
        /\ SameMean(summary.avg_completeness,
                    Mean(SumOver(Successful, CompletenessOf), Cardinality(Successful)))

\* C15: the total cost is the sum of total_cost over all results, the cost
\* per item is that total over the number of all results, in the displayed
\* summary and in the report's statistics, and computing them does not
\* raise.
C15_CostOverAllResults ==
    LET total == SumOver(1..Len(results), TotalCostOf)
    IN  /\ pc = "summarised" =>
               /\ summary.total_cost = total
               /\ SameMean(summary.avg_cost, Mean(total, Len(results)))
        /\ pc # "raised"
        /\ pc = "reported" =>
               /\ stats.total_cost = total
               /\ SameMean(stats.avg_cost_per_test, Mean(total, Len(results)))

\* C20: two category discoveries on one unchanged directory return the
\* same dict: the same keys in the same order, each with the same members
\* in the lexicographic order of their paths, whatever order the file
\* system enumerates the directory in.
C20_DiscoveryIsDeterministic ==
    /\ \A i, j \in 1..Len(runs) : runs[i] = runs[j]
    /\ \A i \in 1..Len(runs) : \A c \in 1..Len(runs[i]) :
           runs[i][c].members = sorted(Range(runs[i][c].members))

\* the place of a step in test_single_image
StageOrder(name) ==
    CASE name = "generate" -> 1
      [] name = "query" -> 2
      [] name = "evaluate" -> 3
      [] OTHER -> 4

Processed == IF mode = "excel" /\ blank_row \in 1..idx THEN idx - 1 ELSE idx

\* C25: a batch sleeps exactly once between two consecutively processed
\* items, also after a failed one, and not after the last item, in folder
\* mode, in Excel mode and in batch_test_images.
C25_OneDelayBetweenItems ==
    (mode \in {"folder", "excel", "system"} /\ ItemReturned) =>
        delays = IF idx < N THEN Processed ELSE Max(Processed - 1, 0)

\* C24: in query_rag every failed attempt that is not the final one is
\* followed by exactly one sleep, and no sleep follows a 200 response or the
\* final failed attempt.
C24_SleepPerFailedAttempt ==
    [][(pc = "query" /\ requests' = requests + 1) =>
           sleeps' = sleeps + (IF last_status' # 200 /\ requests' < retry_count
                               THEN 1 ELSE 0)]_vars

\* C30: with retry_count <= 0 query_rag issues no request and raises the
\* generic error; with retry_count >= 1 it exits by returning a 200
\* response or by raising from the final attempt, never by the raise after
\* the loop.
C30_QueryExits ==
    /\ retry_count <= 0 => requests = 0
    /\ pc = "exit" =>
           IF retry_count <= 0
           THEN qstate = "raised" /\ qerror = "RAG_QUERY_FAILED"
           ELSE \/ qstate = "returned" /\ last_status = 200 /\ qerror = None
                \/ /\ qstate = "raised"
                   /\ requests = retry_count
                   /\ qerror \notin {None, "RAG_QUERY_FAILED"}

\* a call with no attempt allowed has raised the generic error
C30_Witness ==
    /\ retry_count <= 0
    /\ pc = "exit"
    /\ requests = 0
    /\ qerror = "RAG_QUERY_FAILED"

C22_TokenFloor ==
    pc = "estimated" =>
        /\ text.len = 0 => tokens = 0
        /\ (text.len > 0 /\ text.cjk = 0) =>
               /\ tokens >= text.len \div 4
               /\ tokens >= text.len \div 3

\* C26: after a folder batch that returned results, the statistics and
\* report step completes without raising and reports totals for the list.
C26_ReportStepCompletes ==
    (mode = "folder" /\ pc \in {"reported", "raised"}) =>
        /\ ~stats.raised
        /\ stats.total_tests = Len(results)
        /\ stats.total_cost >= 0

\* C29: on one list of results the console summary and the report
\* statistics agree on the success rate, the mean technical accuracy, the
\* mean completeness, the total cost and the average cost per test.
C29_SummaryAgreesWithReport ==
    (pc \in {"reported", "raised"} /\ summary.total_tests > 0) =>
        /\ ~stats.raised
        /\ SameMean(summary.success_rate, stats.success_rate)
        /\ SameMean(summary.avg_technical, stats.technical_avg)
        /\ SameMean(summary.avg_completeness, stats.completeness_avg)
        /\ summary.total_cost = stats.total_cost
        /\ SameMean(summary.avg_cost, stats.avg_cost_per_test)

\* the image files of the directory tree
ImageFiles == {f \in directory : lower(f.suffix) \in image_extensions}

\* where a path occurs in a category dict
Occurrences(run, path) ==
    {ck \in (1..Len(run)) \X (1..Cardinality(directory)) :
        /\ ck[2] <= Len(run[ck[1]].members)
        /\ run[ck[1]].members[ck[2]] = path}

\* C27: category discovery partitions the corpus: every image file of the
\* root or of a subdirectory is in exactly one category list, exactly once,
\* and the lists hold nothing else.
C27_DiscoveryPartitions ==
    \A i \in 1..Len(runs) :
        /\ \A f \in ImageFiles : Cardinality(Occurrences(runs[i], f.path)) = 1
        /\ \A c \in 1..Len(runs[i]) :
               Range(runs[i][c].members) \subseteq {f.path : f \in ImageFiles}

\* C28: the category recorded for an item of a folder batch, from which its
\* session id is derived, is the category discovery listed the item under.
C28_RecordedCategoryIsListed ==
    \A i \in 1..Len(sent_sessions) :
        /\ sent_sessions[i].category = sent_sessions[i].listed
        /\ sent_sessions[i].sessionId.category = sent_sessions[i].listed

====
